---- MODULE Spec2Model ----
(***************************************************************************)
(* Hybrid risk-scoring pipeline of the student-support backend:            *)
(*   backend/app/ml/rules.py        rule-based baseline risk               *)
(*   backend/app/routes/students.py create / update / analyze + fusion     *)
(*   backend/app/routes/bot.py      activity logging + its own fusion      *)
(*                                                                         *)
(* Number representation (the code uses Python floats):                    *)
(*   probabilities     integer hundredths   (0.7  is 70, 1.0 is 100)       *)
(*   cgpa              integer tenths       (4.0  is 40, 10.0 is 100)      *)
(*   percentages       integers             (attendance, quiz, engagement) *)
(*   money             integer rupees                                      *)
(*   None              the integer -1 (every real value is >= 0)           *)
(***************************************************************************)
EXTENDS Integers, Sequences, FiniteSets, TLC

VARIABLES students, logs, arg, ret, predictor, CHAT_STATE

vars == <<students, logs, arg, ret, predictor, CHAT_STATE>>

None == 0 - 1

GREEN == "green"
YELLOW == "yellow"
RED == "red"
RiskLevel == {GREEN, YELLOW, RED}

(***************************************************************************)
(* Bounds of the model.                                                    *)
(***************************************************************************)
MaxBacklogs == 5
MaxLogs == 2

(***************************************************************************)
(* rules.py : calculate_baseline_risk                                      *)
(***************************************************************************)

\* lines 37-50: missing values are replaced ON THE STUDENT OBJECT.
\* (fees_pending is a BOOLEAN in this model, so its None branch, lines 43-44,
\* has no case here.)
SafeDefaults(student) ==
    [student EXCEPT
        !.attendance_percentage = IF @ = None THEN 0 ELSE @,
        !.cgpa                  = IF @ = None THEN 0 ELSE @,
        !.backlogs              = IF @ = None THEN 0 ELSE @,
        !.fees_amount_due       = IF @ = None THEN 0 ELSE @,
        !.bot_engagement_score  = IF @ = None THEN 50 ELSE @,
        !.quiz_score_avg        = IF @ = None THEN 50 ELSE @]

\* A factor string is modelled by the signal it reports, the wording of its
\* band and the value formatted into it.
Factor(signal, label, value) == [signal |-> signal, label |-> label, value |-> value]

NoRule == [pts |-> 0, fac |-> << >>]
Rule(pts, signal, label, value) == [pts |-> pts, fac |-> <<Factor(signal, label, value)>>]

\* AttendanceRules with every boundary put in the higher-scoring band.
AttendanceRules_Inclusive(student) ==
    LET a == student.attendance_percentage IN
    IF a <= 50 THEN Rule(4, "attendance", "Critical attendance", a)
    ELSE IF a <= 65 THEN Rule(3, "attendance", "Very low attendance", a)
    ELSE IF a <= 75 THEN Rule(2, "attendance", "Below minimum attendance", a)
    ELSE IF a <= 85 THEN Rule(1, "attendance", "Attendance could improve", a)
    ELSE NoRule

\* lines 57-76
AttendanceRules(student) ==
    LET a == student.attendance_percentage IN
    IF a < 50 THEN Rule(4, "attendance", "Critical attendance", a)
    ELSE IF a < 65 THEN Rule(3, "attendance", "Very low attendance", a)
    ELSE IF a < 75 THEN Rule(2, "attendance", "Below minimum attendance", a)
    ELSE IF a < 85 THEN Rule(1, "attendance", "Attendance could improve", a)
    ELSE NoRule

\* lines 83-102
CgpaRules(student) ==
    LET c == student.cgpa IN
    IF c < 40 THEN Rule(4, "cgpa", "Critical CGPA", c)
    ELSE IF c < 50 THEN Rule(3, "cgpa", "Very low CGPA", c)
    ELSE IF c < 60 THEN Rule(2, "cgpa", "Below average CGPA", c)
    ELSE IF c < 70 THEN Rule(1, "cgpa", "CGPA needs improvement", c)
    ELSE NoRule

\* lines 109-123
BacklogRules(student) ==
    LET b == student.backlogs IN
    IF b >= 5 THEN Rule(4, "backlogs", "High backlogs", b)
    ELSE IF b >= 3 THEN Rule(3, "backlogs", "Multiple backlogs", b)
    ELSE IF b >= 1 THEN Rule(2, "backlogs", "Has backlogs", b)
    ELSE NoRule

\* FinancialRules with the amount boundaries put in the higher-scoring band.
FinancialRules_Inclusive(student) ==
    LET f == student.fees_amount_due IN
    IF student.fees_pending
    THEN IF f >= 100000 THEN Rule(4, "fees", "Major fee pending", f)
         ELSE IF f >= 50000 THEN Rule(3, "fees", "Significant fee pending", f)
         ELSE IF f >= 20000 THEN Rule(2, "fees", "Fee pending", f)
         ELSE Rule(1, "fees", "Minor fee pending", f)
    ELSE NoRule

\* lines 130-150
FinancialRules(student) ==
    LET f == student.fees_amount_due IN
    IF student.fees_pending
    THEN IF f > 100000 THEN Rule(4, "fees", "Major fee pending", f)
         ELSE IF f > 50000 THEN Rule(3, "fees", "Significant fee pending", f)
         ELSE IF f > 20000 THEN Rule(2, "fees", "Fee pending", f)
         ELSE Rule(1, "fees", "Minor fee pending", f)
    ELSE NoRule

\* EngagementRules with the boundary 40 put in the scoring band.
EngagementRules_Inclusive(student) ==
    LET e == student.bot_engagement_score IN
    IF e < 20 THEN Rule(2, "engagement", "Very low engagement", None)
    ELSE IF e <= 40 THEN Rule(1, "engagement", "Low engagement", None)
    ELSE NoRule

\* lines 157-166 (the factor text carries no value)
EngagementRules(student) ==
    LET e == student.bot_engagement_score IN
    IF e < 20 THEN Rule(2, "engagement", "Very low engagement", None)
    ELSE IF e < 40 THEN Rule(1, "engagement", "Low engagement", None)
    ELSE NoRule

\* QuizRules that adds the point and forgets the factor.
QuizRules_NoFactor(student) ==
    LET q == student.quiz_score_avg IN
    IF q < 30 THEN [pts |-> 1, fac |-> << >>]
    ELSE NoRule

\* lines 168-172
QuizRules(student) ==
    LET q == student.quiz_score_avg IN
    IF q < 30 THEN Rule(1, "quiz", "Poor quiz performance", q)
    ELSE NoRule

\* The six blocks in the order the function runs them.
RuleBlocks(student) ==
    << AttendanceRules(student), CgpaRules(student), BacklogRules(student),
       FinancialRules(student), EngagementRules(student), QuizRules(student) >>

\* lines 32-33 and the "risk_score += / risk_factors.append" of every block:
\* the accumulator after the first n blocks.
RECURSIVE Accumulate(_, _)
Accumulate(blocks, n) ==
    IF n = 0 THEN [risk_score |-> 0, risk_factors |-> << >>]
    ELSE LET acc == Accumulate(blocks, n - 1) IN
         [risk_score   |-> acc.risk_score + blocks[n].pts,
          risk_factors |-> acc.risk_factors \o blocks[n].fac]

ConfirmationFactor == Factor("none", "No significant risk factors identified", None)

\* DetermineRiskLevel with RED only above 8 points.
DetermineRiskLevel_RedAbove8(acc) ==
    IF acc.risk_score > 8 THEN [risk |-> RED, risk_factors |-> acc.risk_factors]
    ELSE IF acc.risk_score >= 4 THEN [risk |-> YELLOW, risk_factors |-> acc.risk_factors]
    ELSE [risk |-> GREEN,
          risk_factors |-> IF acc.risk_factors = << >>
                           THEN <<ConfirmationFactor>>
                           ELSE acc.risk_factors]

\* DetermineRiskLevel that confirms every GREEN result.
DetermineRiskLevel_AlwaysConfirm(acc) ==
    IF acc.risk_score >= 8 THEN [risk |-> RED, risk_factors |-> acc.risk_factors]
    ELSE IF acc.risk_score >= 4 THEN [risk |-> YELLOW, risk_factors |-> acc.risk_factors]
    ELSE [risk |-> GREEN,
          risk_factors |-> Append(acc.risk_factors, ConfirmationFactor)]

\* lines 178-185
DetermineRiskLevel(acc) ==
    IF acc.risk_score >= 8 THEN [risk |-> RED, risk_factors |-> acc.risk_factors]
    ELSE IF acc.risk_score >= 4 THEN [risk |-> YELLOW, risk_factors |-> acc.risk_factors]
    ELSE [risk |-> GREEN,
          risk_factors |-> IF acc.risk_factors = << >>
                           THEN <<ConfirmationFactor>>
                           ELSE acc.risk_factors]

\* lines 17-185.  Returns the tuple (risk, risk_factors); risk_score and
\* signal_points are the function's locals at the return, and student is the
\* argument object as the call leaves it.
\* calculate_baseline_risk that scores with the neutral defaults but writes 0
\* into every missing attribute of the student.
calculate_baseline_risk_ZeroWritten(student) ==
    LET s      == SafeDefaults(student)
        blocks == RuleBlocks(s)
        acc    == Accumulate(blocks, 6)
        out    == DetermineRiskLevel(acc)
    IN  [risk          |-> out.risk,
         risk_factors  |-> out.risk_factors,
         risk_score    |-> acc.risk_score,
         signal_points |-> [i \in 1..6 |-> blocks[i].pts],
         student       |-> [s EXCEPT
                               !.bot_engagement_score = IF student.bot_engagement_score = None THEN 0 ELSE @,
                               !.quiz_score_avg = IF student.quiz_score_avg = None THEN 0 ELSE @]]

calculate_baseline_risk(student) ==
    LET s      == SafeDefaults(student)
        blocks == RuleBlocks(s)
        acc    == Accumulate(blocks, 6)
        out    == DetermineRiskLevel(acc)
    IN  [risk          |-> out.risk,
         risk_factors  |-> out.risk_factors,
         risk_score    |-> acc.risk_score,
         signal_points |-> [i \in 1..6 |-> blocks[i].pts],
         student       |-> s]

(***************************************************************************)
(* students.py / bot.py : the two fusion helpers                           *)
(***************************************************************************)

\* _set_risk_fields with RED only above 0.7.
\* _set_risk_fields that never lowers the final risk already stored.
_set_risk_fields_Ratchet(student, baseline_risk, ml_prob, cluster_id) ==
    LET s1 == [student EXCEPT
                  !.baseline_risk       = baseline_risk,
                  !.ml_risk_score       = ml_prob * 100,
                  !.dropout_probability = ml_prob,
                  !.cluster_id          = IF cluster_id # None THEN cluster_id ELSE @]
    IN  IF ml_prob >= 70 \/ baseline_risk = RED \/ student.final_risk = RED
        THEN [s1 EXCEPT !.final_risk = RED, !.stage = 3]
        ELSE IF ml_prob >= 40 \/ baseline_risk = YELLOW \/ student.final_risk = YELLOW
        THEN [s1 EXCEPT !.final_risk = YELLOW, !.stage = 2]
        ELSE [s1 EXCEPT !.final_risk = GREEN, !.stage = 1]

_set_risk_fields_StrictRed(student, baseline_risk, ml_prob, cluster_id) ==
    LET s1 == [student EXCEPT
                  !.baseline_risk       = baseline_risk,
                  !.ml_risk_score       = ml_prob * 100,
                  !.dropout_probability = ml_prob,
                  !.cluster_id          = IF cluster_id # None THEN cluster_id ELSE @]
    IN  IF ml_prob > 70 \/ baseline_risk = RED
        THEN [s1 EXCEPT !.final_risk = RED, !.stage = 3]
        ELSE IF ml_prob >= 40 \/ baseline_risk = YELLOW
        THEN [s1 EXCEPT !.final_risk = YELLOW, !.stage = 2]
        ELSE [s1 EXCEPT !.final_risk = GREEN, !.stage = 1]

\* students.py lines 42-66
_set_risk_fields(student, baseline_risk, ml_prob, cluster_id) ==
    LET s1 == [student EXCEPT
                  !.baseline_risk       = baseline_risk,
                  !.ml_risk_score       = ml_prob * 100,
                  !.dropout_probability = ml_prob,
                  !.cluster_id          = IF cluster_id # None THEN cluster_id ELSE @]
    IN  IF ml_prob >= 70 \/ baseline_risk = RED
        THEN [s1 EXCEPT !.final_risk = RED, !.stage = 3]
        ELSE IF ml_prob >= 40 \/ baseline_risk = YELLOW
        THEN [s1 EXCEPT !.final_risk = YELLOW, !.stage = 2]
        ELSE [s1 EXCEPT !.final_risk = GREEN, !.stage = 1]

\* bot.py lines 115-133 (last_risk_update, a timestamp nothing reads, is not
\* part of the modelled record)
_compute_final_risk_and_stage(student, probability) ==
    LET s1 == [student EXCEPT
                  !.dropout_probability = probability,
                  !.ml_risk_score       = probability * 100]
    IN  IF probability < 30
        THEN [s1 EXCEPT !.final_risk = GREEN, !.stage = 1]
        ELSE IF probability < 60
        THEN [s1 EXCEPT !.final_risk = YELLOW, !.stage = 2]
        ELSE [s1 EXCEPT !.final_risk = RED, !.stage = 3]

(***************************************************************************)
(* models/student.py : the Student row                                     *)
(***************************************************************************)

\* models/student.py lines 25-85: a row holding the given attribute values and
\* the column defaults of the risk fields (baseline_risk, final_risk GREEN,
\* ml_risk_score 0, dropout_probability 0, cluster_id NULL, stage 1).
Student(student_id, attendance, cgpa, backlogs, fees_pending, fees_amount_due, quiz, engagement, counselling, semester) ==
    [student_id            |-> student_id,
     attendance_percentage |-> attendance,
     cgpa                  |-> cgpa,
     backlogs              |-> backlogs,
     fees_pending          |-> fees_pending,
     fees_amount_due       |-> fees_amount_due,
     quiz_score_avg        |-> quiz,
     bot_engagement_score  |-> engagement,
     counselling_sessions  |-> counselling,
     semester              |-> semester,
     baseline_risk         |-> GREEN,
     ml_risk_score         |-> 0,
     final_risk            |-> GREEN,
     dropout_probability   |-> 0,
     cluster_id            |-> None,
     stage                 |-> 1]

\* prediction.py lines 155, 197-198: the four cluster ids
Clusters == 0..3

\* prediction.py lines 188-213: the probability range of predict_proba
Probabilities == 0..100

(***************************************************************************)
(* prediction.py : DropoutPredictor, the module-level singleton predictor  *)
(***************************************************************************)

\* lines 45-55
feature_names == <<"attendance_percentage", "cgpa", "backlogs", "fees_pending", "fees_amount_normalized", "quiz_score_avg", "bot_engagement_score", "counselling_sessions", "semester">>

\* lines 164-186.  fees_amount_due / 100000 is kept in rupees (the unit of the
\* fifth feature is 1/100000); a None amount makes the division raise.
extract_features(student) ==
    << student.attendance_percentage, student.cgpa, student.backlogs,
       IF student.fees_pending THEN 1 ELSE 0, student.fees_amount_due,
       student.quiz_score_avg, student.bot_engagement_score,
       student.counselling_sessions, student.semester >>

\* lines 174-184 and 205: a None among the features makes predict raise, in
\* the division of line 179 or in the float conversion of scaler.transform.
FeaturesRaise(student) == \E i \in 1..9 : extract_features(student)[i] = None

\* What the bootstrap fits is the same on every run (np.random.seed(42), line
\* 67, and random_state=42, lines 155 and 159).  A fit stands for that
\* outcome: coef is prediction_model.coef_[0]; proba and labels are what
\* predict_proba and cluster_model.predict answer for a feature vector after
\* the fitted scaler.  OpenFit leaves the outcome open: the specifications
\* that use it take the answers of predict from all of Probabilities and
\* Clusters.
OpenFit == [coef |-> << >>, proba |-> << >>, labels |-> << >>]

\* lines 39-42
Unfitted ==
    [scaler           |-> [fitted |-> FALSE],
     cluster_model    |-> [fitted |-> FALSE, labels |-> << >>],
     prediction_model |-> [fitted |-> FALSE, coef |-> << >>, proba |-> << >>],
     is_initialized   |-> FALSE]

\* lines 152-155: the scaler is refitted in place and cluster_model is a new,
\* not yet fitted KMeans
InitializeScaler(self, fit) ==
    [self EXCEPT !.scaler = [fitted |-> TRUE],
                 !.cluster_model = [fitted |-> FALSE, labels |-> << >>]]

\* lines 156-159: the KMeans is fitted and prediction_model is a new, not yet
\* fitted LogisticRegression
InitializeClusters(self, fit) ==
    [self EXCEPT !.cluster_model = [fitted |-> TRUE, labels |-> fit.labels],
                 !.prediction_model = [fitted |-> FALSE, coef |-> << >>, proba |-> << >>]]

\* lines 160-162
InitializeClassifier(self, fit) ==
    [self EXCEPT !.prediction_model = [fitted |-> TRUE, coef |-> fit.coef, proba |-> fit.proba],
                 !.is_initialized = TRUE]

\* lines 60-162
_initialize_models(self, fit) ==
    InitializeClassifier(InitializeClusters(InitializeScaler(self, fit), fit), fit)

\* A constructor that leaves the bootstrap to the first predict.
DropoutPredictor_init_Lazy(fit) == Unfitted

\* lines 37-58 (__init__) and 307 (predictor = DropoutPredictor())
DropoutPredictor_init(fit) == _initialize_models(Unfitted, fit)

\* lines 225-270
cluster_profiles ==
    [c \in 0..3 |->
        [name |-> <<"High Performers", "Academic Strugglers", "Financially Stressed", "Disengaged Students">>[c + 1],
         description |-> <<"strong academics", "low CGPA and backlogs", "pending fees", "low attendance and engagement">>[c + 1],
         typical_issues |-> <<"burnout", "learning gaps", "family finances", "lack of interest">>[c + 1],
         intervention |-> <<"Maintain motivation", "Academic mentoring", "Scholarship information", "One-on-one counselling">>[c + 1]]]

\* get_cluster_info that falls back to the first profile.
get_cluster_info_FirstProfile(cluster_id) ==
    IF cluster_id \in DOMAIN cluster_profiles THEN cluster_profiles[cluster_id]
    ELSE cluster_profiles[0]

\* lines 215-272: cluster_profiles.get(cluster_id, cluster_profiles[3])
get_cluster_info(cluster_id) ==
    IF cluster_id \in DOMAIN cluster_profiles THEN cluster_profiles[cluster_id]
    ELSE cluster_profiles[3]

Abs(x) == IF x < 0 THEN 0 - x ELSE x

\* lines 287-293
ImportanceEntry(name, coef) ==
    [feature    |-> name,
     importance |-> Abs(coef),
     direction  |-> IF coef > 0 THEN "increases_risk" ELSE "decreases_risk"]

\* list.sort(key=importance, reverse=True) is stable: an entry goes behind
\* the entries of the same or a higher importance that came before it.
SortedInsert(sorted, e) ==
    LET k == Cardinality({i \in 1..Len(sorted) : sorted[i].importance >= e.importance})
    IN  SubSeq(sorted, 1, k) \o <<e>> \o SubSeq(sorted, k + 1, Len(sorted))

\* The sort with the entries in ascending order.
RECURSIVE SortByImportance_Ascending(_, _)
SortByImportance_Ascending(list, n) ==
    IF n = 0 THEN << >>
    ELSE LET sorted == SortByImportance_Ascending(list, n - 1)
             k == Cardinality({i \in 1..Len(sorted) : sorted[i].importance <= list[n].importance})
         IN  SubSeq(sorted, 1, k) \o <<list[n]>> \o SubSeq(sorted, k + 1, Len(sorted))

\* line 297: the first n entries of the list, sorted
RECURSIVE SortByImportance(_, _)
SortByImportance(list, n) ==
    IF n = 0 THEN << >>
    ELSE SortedInsert(SortByImportance(list, n - 1), list[n])

\* lines 274-299
get_feature_importance(self) ==
    IF ~self.is_initialized THEN << >>
    ELSE LET coefficients == self.prediction_model.coef
             importance_list == [i \in 1..Len(coefficients) |->
                                    ImportanceEntry(feature_names[i], coefficients[i])]
         IN  SortByImportance(importance_list, Len(importance_list))

(***************************************************************************)
(* recommendations.py : generate_recommendations                           *)
(***************************************************************************)

\* A recommendation string is modelled by its block, the wording of its band,
\* its position in the band's list, and the value or text formatted into it.
Rec(block, label, line, value, text) == [block |-> block, label |-> label, line |-> line, value |-> value, text |-> text]

\* recommendations.extend([...]) with a list of n fixed strings
RecLines(block, label, n) == [k \in 1..n |-> Rec(block, label, k, None, "")]

\* lines 34-54
AttendanceRecs(student) ==
    LET a == student.attendance_percentage IN
    IF a < 50 THEN RecLines("attendance", "URGENT", 5)
    ELSE IF a < 65 THEN RecLines("attendance", "Parent-teacher meeting", 4)
    ELSE IF a < 75 THEN RecLines("attendance", "Weekly check-ins", 3)
    ELSE << >>

\* CgpaRecs with the widest band tested first.
CgpaRecs_WidestFirst(student) ==
    LET c == student.cgpa IN
    IF c < 60 THEN RecLines("cgpa", "Focus on weak subjects", 3)
    ELSE IF c < 50 THEN RecLines("cgpa", "Mandatory remedial classes", 4)
    ELSE IF c < 40 THEN RecLines("cgpa", "Intensive remedial program", 4)
    ELSE << >>

\* lines 60-79
CgpaRecs(student) ==
    LET c == student.cgpa IN
    IF c < 40 THEN RecLines("cgpa", "Intensive remedial program", 4)
    ELSE IF c < 50 THEN RecLines("cgpa", "Mandatory remedial classes", 4)
    ELSE IF c < 60 THEN RecLines("cgpa", "Focus on weak subjects", 3)
    ELSE << >>

\* lines 82-99
BacklogRecs(student) ==
    LET b == student.backlogs IN
    IF b >= 5 THEN RecLines("backlogs", "Backlog clearance plan", 4)
    ELSE IF b >= 3 THEN RecLines("backlogs", "Prioritize backlog subjects", 3)
    ELSE IF b >= 1 THEN << Rec("backlogs", "Focus on clearing backlogs", 1, b, ""),
                           Rec("backlogs", "Focus on clearing backlogs", 2, None, "") >>
    ELSE << >>

\* lines 105-124
FeeRecs(student) ==
    LET f == student.fees_amount_due IN
    IF student.fees_pending
    THEN IF f > 100000 THEN RecLines("fees", "Urgent meeting with accounts", 5)
         ELSE IF f > 50000 THEN RecLines("fees", "Fee installment plan", 3)
         ELSE RecLines("fees", "Fee payment reminder", 2)
    ELSE << >>

\* lines 130-142
EngagementRecs(student) ==
    LET e == student.bot_engagement_score IN
    IF e < 30 THEN RecLines("engagement", "Personalized bot outreach", 4)
    ELSE IF e < 50 THEN RecLines("engagement", "Daily engagement targets", 3)
    ELSE << >>

\* lines 144-149
QuizRecs(student) ==
    IF student.quiz_score_avg < 40 THEN RecLines("quiz", "Daily micro-quizzes", 3)
    ELSE << >>

\* lines 155-162
CounsellingRecs(student) ==
    LET n == student.counselling_sessions IN
    IF n = 0 THEN << Rec("counselling", "Schedule first counselling session", 1, None, "") >>
    ELSE IF n < 3 /\ student.final_risk # GREEN
    THEN << Rec("counselling", "Continue counselling", 1, n + 1, "") >>
    ELSE << >>

\* lines 168-169
ClusterRecs(cluster_info) ==
    << Rec("cluster", "Student Profile", 1, None, cluster_info.name),
       Rec("cluster", "Recommended Focus", 2, None, cluster_info.intervention) >>

\* lines 177 and 179
HighPriority == Rec("priority", "HIGH - Action needed within 24 hours", 1, None, "")
MediumPriority == Rec("priority", "MEDIUM - Action needed within 1 week", 1, None, "")

\* lines 176-179: recommendations.insert(0, ...)
PriorityTagging(student, recommendations) ==
    IF student.final_risk = RED THEN <<HighPriority>> \o recommendations
    ELSE IF student.final_risk = YELLOW THEN <<MediumPriority>> \o recommendations
    ELSE recommendations

\* generate_recommendations that appends the priority tag.
generate_recommendations_TagLast(student, risk_factors, cluster_info) ==
    LET recommendations ==
            AttendanceRecs(student) \o CgpaRecs(student) \o BacklogRecs(student)
            \o FeeRecs(student) \o EngagementRecs(student) \o QuizRecs(student)
            \o CounsellingRecs(student) \o ClusterRecs(cluster_info)
    IN  IF student.final_risk = RED THEN Append(recommendations, HighPriority)
        ELSE IF student.final_risk = YELLOW THEN Append(recommendations, MediumPriority)
        ELSE recommendations

\* generate_recommendations with the cluster summary before the counselling line.
generate_recommendations_ClusterEarly(student, risk_factors, cluster_info) ==
    PriorityTagging(student,
        AttendanceRecs(student) \o CgpaRecs(student) \o BacklogRecs(student)
        \o FeeRecs(student) \o EngagementRecs(student) \o QuizRecs(student)
        \o ClusterRecs(cluster_info) \o CounsellingRecs(student))

\* lines 12-181 (risk_factors is a parameter the function never reads)
generate_recommendations(student, risk_factors, cluster_info) ==
    PriorityTagging(student,
        AttendanceRecs(student) \o CgpaRecs(student) \o BacklogRecs(student)
        \o FeeRecs(student) \o EngagementRecs(student) \o QuizRecs(student)
        \o CounsellingRecs(student) \o ClusterRecs(cluster_info))

(***************************************************************************)
(* Specification SpecRules: calculate_baseline_risk applied to a snapshot  *)
(***************************************************************************)
AttendanceInputs == {None, 49, 50, 64, 65, 74, 75, 84, 85}
CgpaInputs == {None, 39, 40, 49, 50, 59, 60, 69, 70}
BacklogInputs == {None} \cup (0..MaxBacklogs)
FeeAmountInputs == {None, 0, 20000, 20001, 50000, 50001, 100000, 100001}
EngagementInputs == {None, 0, 19, 20, 39, 40}
QuizInputs == {None, 29, 30}

NotCalled == [op |-> "none"]

InitRules ==
    /\ students = << >>
    /\ logs = << >>
    /\ CHAT_STATE = << >>
    /\ predictor = DropoutPredictor_init(OpenFit)
    /\ ret = NotCalled
    /\ \E a \in AttendanceInputs, c \in CgpaInputs, b \in BacklogInputs,
          fp \in BOOLEAN, fa \in FeeAmountInputs,
          e \in EngagementInputs, q \in QuizInputs :
          arg = Student("S001", a, c, b, fp, fa, q, e, 0, 3)

CallRules ==
    /\ ret = NotCalled
    /\ ret' = [op |-> "calculate_baseline_risk"] @@ calculate_baseline_risk(arg)
    /\ UNCHANGED <<students, logs, arg, predictor, CHAT_STATE>>

\* A second call on the same student object, as the first call left it.
CallRulesAgain ==
    /\ ret.op = "calculate_baseline_risk"
    /\ ret' = [ret EXCEPT !.op = "calculate_baseline_risk again"] @@
              [again |-> calculate_baseline_risk(ret.student)]
    /\ UNCHANGED <<students, logs, arg, predictor, CHAT_STATE>>

NextRules == CallRules \/ CallRulesAgain

SpecRules == InitRules /\ [][NextRules]_vars

(***************************************************************************)
(* Specification SpecPredictor: the module-level predictor (prediction.py  *)
(* line 307) used by concurrent callers.  arg holds the outcome of the     *)
(* bootstrap fit and ret the position and locals of every caller.          *)
(***************************************************************************)

NumCallers == 2

Callers == 1..NumCallers

PredictSnapshots ==
    { Student("S001", 0, 35, 0, TRUE, 150000, 20, 10, 0, 3),
      Student("S002", 100, 80, 0, FALSE, 0, 90, 80, 2, 5) }

FeatureVectors == { extract_features(student) : student \in PredictSnapshots }

ClusterIdsAsked == {None, 0 - 5, 0, 1, 2, 3, 4, 7}

CoefFitted == <<0 - 3, 0 - 2, 4, 1, 0, 0 - 1, 0 - 2, 1, 0>>

\* The outcomes of the fit that the callers may meet.
Fits ==
    [coef : {CoefFitted}, proba : [FeatureVectors -> {10, 80}], labels : [FeatureVectors -> {0, 3}]]

Idle == [pc |-> "idle", op |-> "none"]

InitPredictor ==
    /\ students = << >>
    /\ logs = << >>
    /\ CHAT_STATE = << >>
    /\ \E fit \in Fits :
          /\ arg = [fit |-> fit]
          /\ predictor = DropoutPredictor_init(fit)
    /\ ret = [c \in Callers |-> Idle]

Returned(c) == ret[c].pc \in {"idle", "done", "raised"}

\* A caller enters predict(student)
CallPredict(c) ==
    /\ Returned(c)
    /\ \E student \in PredictSnapshots :
          ret' = [ret EXCEPT ![c] = [pc |-> "check", op |-> "predict", student |-> student]]
    /\ UNCHANGED <<students, logs, arg, predictor, CHAT_STATE>>

\* One step of predict or of the _initialize_models it calls, lines 201-213
\* and 152-162.  transform, predict_proba and cluster_model.predict raise on
\* an estimator that is not fitted.
predict(c) ==
    /\ ret[c].op = "predict"
    /\ ~Returned(c)
    /\ LET me == ret[c]
           goto(pc) == ret' = [ret EXCEPT ![c].pc = pc]
       IN  CASE me.pc = "check" ->
                  /\ goto(IF predictor.is_initialized THEN "transform" ELSE "fit_scaler")
                  /\ UNCHANGED predictor
             [] me.pc = "fit_scaler" ->
                  /\ predictor' = InitializeScaler(predictor, arg.fit)
                  /\ goto("fit_clusters")
             [] me.pc = "fit_clusters" ->
                  /\ predictor' = InitializeClusters(predictor, arg.fit)
                  /\ goto("fit_classifier")
             [] me.pc = "fit_classifier" ->
                  /\ predictor' = InitializeClassifier(predictor, arg.fit)
                  /\ goto("transform")
             [] me.pc = "transform" ->
                  /\ IF FeaturesRaise(me.student) \/ ~predictor.scaler.fitted
                     THEN goto("raised")
                     ELSE ret' = [ret EXCEPT ![c] = [pc |-> "predict_proba"] @@
                                      [features |-> extract_features(me.student)] @@ me]
                  /\ UNCHANGED predictor
             [] me.pc = "predict_proba" ->
                  /\ IF ~predictor.prediction_model.fitted
                     THEN goto("raised")
                     ELSE ret' = [ret EXCEPT ![c] = [pc |-> "cluster_predict"] @@
                                      [probability |-> predictor.prediction_model.proba[me.features]] @@ me]
                  /\ UNCHANGED predictor
             [] me.pc = "cluster_predict" ->
                  /\ IF ~predictor.cluster_model.fitted
                     THEN goto("raised")
                     ELSE ret' = [ret EXCEPT ![c] = [pc |-> "done"] @@
                                      [cluster |-> predictor.cluster_model.labels[me.features]] @@ me]
                  /\ UNCHANGED predictor
    /\ UNCHANGED <<students, logs, arg, CHAT_STATE>>

CallGetClusterInfo(c) ==
    /\ Returned(c)
    /\ \E cluster_id \in ClusterIdsAsked :
          ret' = [ret EXCEPT ![c] = [pc |-> "done", op |-> "get_cluster_info",
                                     cluster_id |-> cluster_id,
                                     result |-> get_cluster_info(cluster_id)]]
    /\ UNCHANGED <<students, logs, arg, predictor, CHAT_STATE>>

CallGetFeatureImportance(c) ==
    /\ Returned(c)
    /\ ret' = [ret EXCEPT ![c] = [pc |-> "done", op |-> "get_feature_importance",
                                  result |-> get_feature_importance(predictor)]]
    /\ UNCHANGED <<students, logs, arg, predictor, CHAT_STATE>>

NextPredictor ==
    \E c \in Callers :
        \/ CallPredict(c)
        \/ predict(c)
        \/ CallGetClusterInfo(c)
        \/ CallGetFeatureImportance(c)

SpecPredictor == InitPredictor /\ [][NextPredictor]_vars

(***************************************************************************)
(* Specification SpecImportance: get_feature_importance over the           *)
(* coefficient vectors a fit may leave in prediction_model.coef_[0].       *)
(***************************************************************************)

CoefValues == {0 - 2, 0, 1}

InitImportance ==
    /\ students = << >>
    /\ logs = << >>
    /\ CHAT_STATE = << >>
    /\ ret = NotCalled
    /\ \E coef \in [1..Len(feature_names) -> CoefValues] :
          /\ arg = [fit |-> [coef |-> coef, proba |-> << >>, labels |-> << >>]]
          /\ predictor = DropoutPredictor_init(arg.fit)

CallImportance ==
    /\ ret = NotCalled
    /\ ret' = [op |-> "get_feature_importance", result |-> get_feature_importance(predictor)]
    /\ UNCHANGED <<students, logs, arg, predictor, CHAT_STATE>>

NextImportance == CallImportance

SpecImportance == InitImportance /\ [][NextImportance]_vars

(***************************************************************************)
(* Specification SpecRecs: generate_recommendations over snapshots on both *)
(* sides of its thresholds, for every final risk.                          *)
(***************************************************************************)

RecAttendanceInputs == {49, 50, 64, 74, 75}

RecCgpaInputs == {39, 40, 50, 60}

RecFeeInputs == {<<FALSE, 150000>>, <<TRUE, 50000>>, <<TRUE, 50001>>, <<TRUE, 100001>>}

RecEngagementInputs == {29, 30, 50}

RecQuizInputs == {39, 40}

RecCounsellingInputs == {0, 2, 3}

RecClusterInputs == {0, 3}

InitRecs ==
    /\ students = << >>
    /\ logs = << >>
    /\ CHAT_STATE = << >>
    /\ predictor = DropoutPredictor_init(OpenFit)
    /\ ret = NotCalled
    /\ \E a \in RecAttendanceInputs, c \in RecCgpaInputs, b \in 0..MaxBacklogs,
          fee \in RecFeeInputs, e \in RecEngagementInputs, q \in RecQuizInputs,
          n \in RecCounsellingInputs, final_risk \in {GREEN, YELLOW, RED},
          cluster_id \in RecClusterInputs :
          arg = [student |-> [Student("S001", a, c, b, fee[1], fee[2], q, e, n, 3)
                                 EXCEPT !.final_risk = final_risk, !.cluster_id = cluster_id],
                 cluster_info |-> get_cluster_info(cluster_id)]

CallRecs ==
    /\ ret = NotCalled
    /\ ret' = [op |-> "generate_recommendations",
               recommendations |->
                   generate_recommendations(arg.student,
                                            calculate_baseline_risk(arg.student).risk_factors,
                                            arg.cluster_info)]
    /\ UNCHANGED <<students, logs, arg, predictor, CHAT_STATE>>

NextRecs == CallRecs

SpecRecs == InitRecs /\ [][NextRecs]_vars

(***************************************************************************)
(* admin_counselors.py : classify_student_area                             *)
(***************************************************************************)

\* Python's "value or default" on a number: None and 0 are both falsy.
OrDefault(value, default) == IF value = None \/ value = 0 THEN default ELSE value

\* lines 31-59 (cgpa in tenths: 10.0 is 100 and 6.0 is 60)
classify_student_area(student) ==
    IF student.cluster_id = 1 THEN "academic"
    ELSE IF student.cluster_id = 2 THEN "financial"
    ELSE IF student.cluster_id = 3 THEN "attendance"
    ELSE IF student.fees_pending \/ OrDefault(student.fees_amount_due, 0) > 0 THEN "financial"
    ELSE IF OrDefault(student.backlogs, 0) >= 2 \/ OrDefault(student.cgpa, 100) < 60 THEN "academic"
    ELSE IF OrDefault(student.attendance_percentage, 100) < 75 \/ OrDefault(student.bot_engagement_score, 100) < 40
         THEN "attendance"
    ELSE "general"

(***************************************************************************)
(* Specification SpecArea: classify_student_area over students on both     *)
(* sides of its thresholds, with missing and zero attributes.              *)
(***************************************************************************)

AreaClusterInputs == {None, 0, 1, 2, 3}

AreaFeeInputs == {None, 0, 500}

AreaBacklogInputs == {None, 0, 1, 2}

AreaCgpaInputs == {None, 0, 59, 60}

AreaAttendanceInputs == {None, 0, 74, 75}

AreaEngagementInputs == {None, 0, 39, 40}

InitArea ==
    /\ students = << >>
    /\ logs = << >>
    /\ CHAT_STATE = << >>
    /\ predictor = DropoutPredictor_init(OpenFit)
    /\ ret = NotCalled
    /\ \E cluster_id \in AreaClusterInputs, fp \in BOOLEAN, fa \in AreaFeeInputs,
          b \in AreaBacklogInputs, c \in AreaCgpaInputs, a \in AreaAttendanceInputs,
          e \in AreaEngagementInputs :
          arg = [Student("S001", a, c, b, fp, fa, 50, e, 0, 3) EXCEPT !.cluster_id = cluster_id]

CallArea ==
    /\ ret = NotCalled
    /\ ret' = [op |-> "classify_student_area", area |-> classify_student_area(arg)]
    /\ UNCHANGED <<students, logs, arg, predictor, CHAT_STATE>>

NextArea == CallArea

SpecArea == InitArea /\ [][NextArea]_vars

(***************************************************************************)
(* admin_counselors.py : build_specialized_assignment                      *)
(* counselor_assigned.py : get_my_assigned_students                        *)
(***************************************************************************)

\* A specialization is its letters in lower case, whether it has upper case
\* letters in it, whether it has white space around it, and whether the
\* column is NULL (user.py line 63: nullable).
Str(text) == [text |-> text, upper |-> FALSE, padded |-> FALSE, missing |-> FALSE]

NoneStr == [text |-> "", upper |-> FALSE, padded |-> FALSE, missing |-> TRUE]

strip(string) == [string EXCEPT !.padded = FALSE]

lower(string) == [string EXCEPT !.upper = FALSE]

\* line 83: (c.specialization or "").strip().lower() or "general"
SpecializationKey(c) ==
    LET key == lower(strip(IF c.specialization = NoneStr THEN Str("") ELSE c.specialization))
    IN  IF key = Str("") THEN Str("general") ELSE key

\* lines 81-84 and 90: spec_map.get(area), the counselors of that key in
\* roster order
SpecMapGet(counselors, area) ==
    SelectSeq(counselors, LAMBDA c : SpecializationKey(c) = Str(area))

\* A pool that is the full roster for every student.
Pool_FullRoster(counselors, s) == counselors

\* line 90: pool = spec_map.get(area) or all_pool
Pool(counselors, s) ==
    LET pool == SpecMapGet(counselors, classify_student_area(s))
    IN  IF pool = << >> THEN counselors ELSE pool

\* The loop of lines 88-96 with every student given to the first counselor of
\* the pool.
RECURSIVE AssignStudents_FirstOfPool(_, _, _, _)
AssignStudents_FirstOfPool(mapping, counselors, student_list, n) ==
    IF n = 0 THEN mapping
    ELSE LET done == AssignStudents_FirstOfPool(mapping, counselors, student_list, n - 1)
             s    == student_list[n]
             pool == Pool(counselors, s)
         IN  IF pool = << >> THEN done
             ELSE [done EXCEPT ![pool[1].id] = Append(@, s)]

\* The loop of lines 88-96 with the student also left with the first
\* counselor of the roster.
RECURSIVE AssignStudents_AlsoFirst(_, _, _, _)
AssignStudents_AlsoFirst(mapping, counselors, student_list, n) ==
    IF n = 0 THEN mapping
    ELSE LET done == AssignStudents_AlsoFirst(mapping, counselors, student_list, n - 1)
             s    == student_list[n]
             pool == Pool(counselors, s)
             assigned == pool[(s.id % Len(pool)) + 1]
         IN  IF pool = << >> THEN done
             ELSE IF assigned.id = counselors[1].id THEN [done EXCEPT ![assigned.id] = Append(@, s)]
             ELSE [done EXCEPT ![assigned.id] = Append(@, s), ![counselors[1].id] = Append(@, s)]

\* lines 88-96, for the first n students of the list
RECURSIVE AssignStudents(_, _, _, _)
AssignStudents(mapping, counselors, student_list, n) ==
    IF n = 0 THEN mapping
    ELSE LET done == AssignStudents(mapping, counselors, student_list, n - 1)
             s    == student_list[n]
             pool == Pool(counselors, s)
             idx  == s.id % Len(pool)
             assigned == pool[idx + 1]
         IN  IF pool = << >> THEN done
             ELSE [done EXCEPT ![assigned.id] = Append(@, s)]

\* A build that keeps the students of an empty roster under the key 0.
build_specialized_assignment_Unassigned(counselors, student_list) ==
    IF counselors = << >> THEN [id \in {0} |-> student_list]
    ELSE AssignStudents([id \in {counselors[i].id : i \in 1..Len(counselors)} |-> << >>], counselors, student_list, Len(student_list))

\* lines 62-98
build_specialized_assignment(counselors, student_list) ==
    LET mapping == [id \in {counselors[i].id : i \in 1..Len(counselors)} |-> << >>]
    IN  IF counselors = << >> THEN mapping
        ELSE AssignStudents(mapping, counselors, student_list, Len(student_list))

\* lines 35-40, 110-115: the active users of role counselor, in table order
ActiveCounselors(users) ==
    SelectSeq(users, LAMBDA u : u.role = "counselor" /\ u.is_active)

\* lines 26-44, with the dependencies get_current_user (auth_handler.py
\* 83-111: the user is active) and require_counselor (lines 17-23)
get_my_assigned_students(current_user) ==
    /\ current_user.is_active
    /\ IF current_user.role # "counselor"
       THEN ret' = [op |-> "get_my_assigned_students", status |-> 403, current_user |-> current_user]
       ELSE LET counselors == ActiveCounselors(arg.users)
                mapping == build_specialized_assignment(counselors, students)
            IN  ret' = [op |-> "get_my_assigned_students", status |-> 200,
                        current_user |-> current_user,
                        result |-> IF current_user.id \in DOMAIN mapping
                                   THEN mapping[current_user.id] ELSE << >>]
    /\ UNCHANGED <<students, logs, arg, predictor, CHAT_STATE>>

(***************************************************************************)
(* Specification SpecAssign: the counselor views over a table of users     *)
(* (arg.users) and a table of students.                                    *)
(***************************************************************************)

MaxUsers == 2

MaxStudents == 2

SpecializationInputs ==
    {NoneStr, [Str("") EXCEPT !.padded = TRUE], Str("academic"),
     [Str("academic") EXCEPT !.upper = TRUE, !.padded = TRUE], Str("financial")}

UserInputs ==
    [role : {"counselor"}, is_active : {TRUE}, specialization : SpecializationInputs]
    \cup [role : {"admin"}, is_active : {TRUE}, specialization : {NoneStr}]

\* User tables of up to MaxUsers rows; the row at position k has id 10 + k.
UserTables ==
    UNION {{[k \in 1..n |-> [id |-> 10 + k] @@ rows[k]] : rows \in [1..n -> UserInputs]} : n \in 0..MaxUsers}

\* An academic student (cluster 1), a financial one (cluster 2) and a general
\* one; classify_student_area is exercised on all its inputs under SpecArea.
AssignStudentInputs ==
    {[Student("S", 90, 80, b, FALSE, 0, 50, 50, 0, 3) EXCEPT !.cluster_id = cluster_id] :
        <<cluster_id, b>> \in {<<1, 0>>, <<2, 0>>, <<0, 0>>}}

\* Student tables of up to MaxStudents rows; the row at position k has the
\* primary key 2k - 1 or 2k.
StudentTables ==
    UNION {{[k \in 1..n |-> [id |-> 2 * k - keys[k]] @@ rows[k]] :
               rows \in [1..n -> AssignStudentInputs], keys \in [1..n -> {0, 1}]} : n \in 0..MaxStudents}

InitAssign ==
    /\ logs = << >>
    /\ CHAT_STATE = << >>
    /\ predictor = DropoutPredictor_init(OpenFit)
    /\ ret = NotCalled
    /\ students \in StudentTables
    /\ \E users \in UserTables : arg = [users |-> users]

\* build_specialized_assignment on the rosters the views query
CallAssignment ==
    /\ ret = NotCalled
    /\ ret' = [op |-> "build_specialized_assignment",
               counselors |-> ActiveCounselors(arg.users),
               stored |-> <<students, arg>>,
               mapping |-> build_specialized_assignment(ActiveCounselors(arg.users), students)]
    /\ UNCHANGED <<students, logs, arg, predictor, CHAT_STATE>>

\* A second call on the same rosters
CallAssignmentAgain ==
    /\ ret.op = "build_specialized_assignment"
    /\ ret' = [ret EXCEPT !.op = "build_specialized_assignment again"] @@
              [again |-> build_specialized_assignment(ActiveCounselors(arg.users), students)]
    /\ UNCHANGED <<students, logs, arg, predictor, CHAT_STATE>>

NextAssign ==
    \/ CallAssignment
    \/ CallAssignmentAgain
    \/ \E i \in 1..Len(arg.users) : get_my_assigned_students(arg.users[i])

SpecAssign == InitAssign /\ [][NextAssign]_vars

(***************************************************************************)
(* telegram_bot.py : the check-in conversation.  CHAT_STATE is the         *)
(* process's dict of line 143; the backend is another process, whose       *)
(* answer to a request is "ok" or a failure (BackendClient raises          *)
(* RuntimeError, or requests raises).                                      *)
(***************************************************************************)

\* lines 215-219: the dict entry handle_register leaves
Registered(student_id) == [student_id |-> student_id, pending_questions |-> << >>, current_index |-> 0]

\* CHAT_STATE[chat_id] = state
SetChatState(chat_id, state) ==
    [c \in DOMAIN CHAT_STATE \cup {chat_id} |-> IF c = chat_id THEN state ELSE CHAT_STATE[c]]

Reply(op, chat_id, outcome, question) == [op |-> op, chat_id |-> chat_id, outcome |-> outcome, question |-> question]

\* lines 196-226; student_id is None for a /register with no id behind it
handle_register(chat_id, student_id, backend) ==
    /\ IF student_id = "" 
       THEN /\ ret' = Reply("handle_register", chat_id, "usage", None)
            /\ UNCHANGED CHAT_STATE
       ELSE IF backend # "ok"
       THEN /\ ret' = Reply("handle_register", chat_id, "failed", None)
            /\ UNCHANGED CHAT_STATE
       ELSE /\ CHAT_STATE' = SetChatState(chat_id, Registered(student_id))
            /\ ret' = Reply("handle_register", chat_id, "registered", None)
    /\ UNCHANGED <<students, logs, arg, predictor>>

\* lines 229-249: the state ask_current_question leaves and the number of the
\* question it sends (None when it says that all are completed)
ask_current_question(state) ==
    IF state.current_index >= Len(state.pending_questions)
    THEN [state |-> [state EXCEPT !.pending_questions = << >>, !.current_index = 0], question |-> None]
    ELSE [state |-> state, question |-> state.current_index + 1]

\* lines 252-288; activities is what GET /bot/daily_checkup answered
handle_daily(chat_id, backend, activities) ==
    /\ IF chat_id \notin DOMAIN CHAT_STATE
       THEN /\ ret' = Reply("handle_daily", chat_id, "not registered", None)
            /\ UNCHANGED CHAT_STATE
       ELSE IF backend # "ok"
       THEN /\ ret' = Reply("handle_daily", chat_id, "failed", None)
            /\ UNCHANGED CHAT_STATE
       ELSE IF activities = << >>
       THEN /\ ret' = Reply("handle_daily", chat_id, "no activities", None)
            /\ UNCHANGED CHAT_STATE
       ELSE LET state == [CHAT_STATE[chat_id] EXCEPT !.pending_questions = activities, !.current_index = 0]
                asked == ask_current_question(state)
            IN  /\ CHAT_STATE' = SetChatState(chat_id, asked.state)
                /\ ret' = Reply("handle_daily", chat_id, "started", asked.question)
    /\ UNCHANGED <<students, logs, arg, predictor>>

\* lines 423-437: the state after an accepted answer
AfterAnswer(state) ==
    LET next == [state EXCEPT !.current_index = @ + 1]
    IN  IF next.current_index >= Len(state.pending_questions)
        THEN [state |-> [next EXCEPT !.pending_questions = << >>, !.current_index = 0], question |-> None]
        ELSE ask_current_question(next)

\* handle_text_message that moves on to the next question before it knows
\* whether the answer was saved.
handle_text_message_AdvanceFirst(chat_id, backend) ==
    /\ chat_id \in DOMAIN CHAT_STATE
    /\ CHAT_STATE[chat_id].pending_questions # << >>
    /\ LET state == CHAT_STATE[chat_id]
           after == AfterAnswer(state)
       IN  /\ CHAT_STATE' = SetChatState(chat_id, after.state)
           /\ ret' = [Reply("handle_text_message", chat_id, IF backend = "ok" THEN "accepted" ELSE "failed", after.question)
                         EXCEPT !.question = IF backend = "ok" THEN after.question ELSE None] @@
                     [answered |-> state.current_index + 1]
    /\ UNCHANGED <<students, logs, arg, predictor>>

\* lines 358-437; answered is the number of the question whose answer was
\* sent to POST /bot/activity
handle_text_message(chat_id, backend) ==
    /\ IF chat_id \notin DOMAIN CHAT_STATE
       THEN /\ ret' = Reply("handle_text_message", chat_id, "ignored", None)
            /\ UNCHANGED CHAT_STATE
       ELSE LET state == CHAT_STATE[chat_id]
                idx   == state.current_index
                done  == [state EXCEPT !.pending_questions = << >>, !.current_index = 0]
            IN  IF state.pending_questions = << >>
                THEN /\ ret' = Reply("handle_text_message", chat_id, "ignored", None)
                     /\ UNCHANGED CHAT_STATE
                ELSE IF state.student_id = ""
                THEN /\ ret' = Reply("handle_text_message", chat_id, "not registered", None)
                     /\ CHAT_STATE' = SetChatState(chat_id, done)
                ELSE IF idx >= Len(state.pending_questions)
                THEN /\ ret' = Reply("handle_text_message", chat_id, "completed", None)
                     /\ CHAT_STATE' = SetChatState(chat_id, done)
                ELSE IF backend # "ok"
                THEN /\ ret' = Reply("handle_text_message", chat_id, "failed", None) @@ [answered |-> idx + 1]
                     /\ UNCHANGED CHAT_STATE
                ELSE /\ CHAT_STATE' = SetChatState(chat_id, AfterAnswer(state).state)
                     /\ ret' = Reply("handle_text_message", chat_id, "accepted", AfterAnswer(state).question) @@
                               [answered |-> idx + 1]
    /\ UNCHANGED <<students, logs, arg, predictor>>

(***************************************************************************)
(* Specification SpecChat: the bot process handling the messages of its    *)
(* chats one at a time (the polling loop of lines 454-487).                *)
(***************************************************************************)

MaxQuestions == 2

Chats == {101, 102}

RegisterIds == {"", "S001", "S002"}

BackendAnswers == {"ok", "error"}

\* The questions GET /bot/daily_checkup may list.
DailyQuestions ==
    [k \in 1..(MaxQuestions + 1) |->
        [activity_type |-> "checkin", activity_code |-> k, question |-> k]]

InitChat ==
    /\ students = << >>
    /\ logs = << >>
    /\ predictor = DropoutPredictor_init(OpenFit)
    /\ arg = << >>
    /\ ret = NotCalled
    /\ CHAT_STATE = << >>

NextChat ==
    \E chat_id \in Chats, backend \in BackendAnswers :
        \/ \E student_id \in RegisterIds : handle_register(chat_id, student_id, backend)
        \/ \E n \in 0..MaxQuestions : handle_daily(chat_id, backend, SubSeq(DailyQuestions, 1, n))
        \/ handle_text_message(chat_id, backend)

SpecChat == InitChat /\ [][NextChat]_vars

(***************************************************************************)
(* Specification SpecFusion: the two fusion helpers applied to the same    *)
(* baseline risk and probability                                           *)
(***************************************************************************)
FusionStudent == Student("S001", 90, 80, 0, FALSE, 0, 50, 50, 0, 3)

InitFusion ==
    /\ students = << >>
    /\ logs = << >>
    /\ CHAT_STATE = << >>
    /\ predictor = DropoutPredictor_init(OpenFit)
    /\ \E b \in RiskLevel, p \in Probabilities, c \in Clusters \cup {None} :
          arg = [baseline_risk |-> b, ml_prob |-> p, cluster_id |-> c]
    /\ ret = [called |-> {}, direct |-> FusionStudent, bot |-> FusionStudent]

CallSetRiskFields ==
    /\ "direct" \notin ret.called
    /\ ret' = [ret EXCEPT
                 !.called = @ \cup {"direct"},
                 !.direct = _set_risk_fields(FusionStudent, arg.baseline_risk,
                                             arg.ml_prob, arg.cluster_id)]
    /\ UNCHANGED <<students, logs, arg, predictor, CHAT_STATE>>

CallComputeFinalRiskAndStage ==
    /\ "bot" \notin ret.called
    /\ ret' = [ret EXCEPT
                 !.called = @ \cup {"bot"},
                 !.bot = _compute_final_risk_and_stage(FusionStudent, arg.ml_prob)]
    /\ UNCHANGED <<students, logs, arg, predictor, CHAT_STATE>>

NextFusion == CallSetRiskFields \/ CallComputeFinalRiskAndStage

SpecFusion == InitFusion /\ [][NextFusion]_vars

(***************************************************************************)
(* Specification Spec: the stored student rows and the request handlers    *)
(* that write them                                                         *)
(***************************************************************************)
StudentIds == {"S001"}

\* Attribute values sent by clients in this specification.
AttendanceSent == {40, 90}
CgpaSent == {35, 80}

\* Probabilities the predictor answers with in this specification: one in
\* each interval cut out by the thresholds 0.3, 0.4, 0.6, 0.7 is too many for
\* the state space; these four separate the two fusion helpers.
ProbabilitiesSeen == {0, 35, 65, 100}

\* The clusters predict answers in the handlers.
ClustersSeen == {0, 3}

\* Days that pass in one step of the clock, and the age from which a log can
\* never again fall in the 7-day window.
TickDays == {4, 8}
Expired == 8

NoArg == << >>

Init ==
    /\ students = << >>
    /\ logs = << >>
    /\ CHAT_STATE = << >>
    /\ predictor = DropoutPredictor_init(OpenFit)
    /\ arg = NoArg
    /\ ret = NotCalled

Response(op, student_id, status) == [op |-> op, student_id |-> student_id, status |-> status]

\* The INSERT of a row (db.add + db.commit): models/student.py column
\* defaults fill the attributes still None.
ColumnDefaults(student) ==
    [student EXCEPT
        !.quiz_score_avg       = IF @ = None THEN 0 ELSE @,
        !.bot_engagement_score = IF @ = None THEN 0 ELSE @,
        !.counselling_sessions = IF @ = None THEN 0 ELSE @]

\* students.py lines 86-97 (create_student) and 499-507
\* (import_base_students_csv): the row built from a StudentCreate, which has
\* no quiz, engagement or counselling field; stage keeps its default.
NewStudentRow(student_in) ==
    LET db_student == Student(student_in.student_id, student_in.attendance_percentage,
                              student_in.cgpa, student_in.backlogs,
                              student_in.fees_pending, student_in.fees_amount_due,
                              None, None, None, student_in.semester)
        r == calculate_baseline_risk(db_student)
    IN  ColumnDefaults([r.student EXCEPT !.baseline_risk = r.risk,
                                         !.final_risk = r.risk])

\* schemas.py lines 87-110: the StudentCreate payloads of this specification
StudentCreate ==
    [student_id : StudentIds, attendance_percentage : AttendanceSent,
     cgpa : CgpaSent, backlogs : {0}, fees_pending : {FALSE},
     fees_amount_due : {0}, semester : {3}]

Insert(table, row) == (row.student_id :> row) @@ table

\* students.py lines 69-97.  Every student has an e-mail address of its own,
\* so the e-mail check (lines 83-84) fails only together with the id check.
create_student(student_in) ==
    /\ IF student_in.student_id \in DOMAIN students
       THEN /\ ret' = Response("create_student", student_in.student_id, 400)
            /\ UNCHANGED students
       ELSE /\ students' = Insert(students, NewStudentRow(student_in))
            /\ ret' = Response("create_student", student_in.student_id, 200)
    /\ UNCHANGED <<logs, arg, predictor, CHAT_STATE>>

\* students.py lines 427-510, for a file of one row; a row without a
\* semester (semester = 0) fails the StudentCreate validation (ge=1).
import_base_students_csv(row) ==
    /\ IF row.student_id \in DOMAIN students
       THEN /\ ret' = Response("import_base_students_csv", row.student_id, 200)
            /\ UNCHANGED students
       ELSE IF row.semester < 1
       THEN /\ ret' = Response("import_base_students_csv", row.student_id, 400)
            /\ UNCHANGED students
       ELSE /\ students' = Insert(students, NewStudentRow(row))
            /\ ret' = Response("import_base_students_csv", row.student_id, 200)
    /\ UNCHANGED <<logs, arg, predictor, CHAT_STATE>>

CsvRows ==
    [student_id : StudentIds, attendance_percentage : AttendanceSent,
     cgpa : CgpaSent, backlogs : {0}, fees_pending : {FALSE},
     fees_amount_due : {0}, semester : {0, 3}]

\* schemas.py lines 113-129: the fields a StudentUpdate of this specification
\* sets (exclude_unset: a field that is not in the payload is left alone).
Unset == 0 - 2
StudentUpdate ==
    [attendance_percentage : AttendanceSent \cup {Unset},
     cgpa : CgpaSent \cup {Unset}, counselling_sessions : {Unset},
     stage : {Unset}, final_risk : {"unset"}]
    \cup
    [attendance_percentage : {Unset}, cgpa : {Unset}, counselling_sessions : {Unset},
     stage : {Unset, 1}, final_risk : {"unset", GREEN}]
    \cup
    [attendance_percentage : {Unset}, cgpa : {Unset, None}, counselling_sessions : {None},
     stage : {Unset}, final_risk : {"unset"}]

\* students.py lines 150-151
ApplyUpdates(student, student_update) ==
    [student EXCEPT
        !.attendance_percentage = IF student_update.attendance_percentage = Unset
                                  THEN @ ELSE student_update.attendance_percentage,
        !.cgpa       = IF student_update.cgpa = Unset THEN @ ELSE student_update.cgpa,
        !.counselling_sessions = IF student_update.counselling_sessions = Unset
                                 THEN @ ELSE student_update.counselling_sessions,
        !.stage      = IF student_update.stage = Unset THEN @ ELSE student_update.stage,
        !.final_risk = IF student_update.final_risk = "unset"
                       THEN @ ELSE student_update.final_risk]

\* students.py lines 134-164; predictor.predict answers (ml_prob, cluster_id),
\* or raises, and then nothing is committed and the request fails (500).
\* ret keeps the stage and final_risk the payload asked for.
update_student(student_id, student_update, ml_prob, cluster_id) ==
    /\ IF student_id \notin DOMAIN students
       THEN /\ ret' = Response("update_student", student_id, 404)
            /\ UNCHANGED students
       ELSE LET student == ApplyUpdates(students[student_id], student_update)
                r == calculate_baseline_risk(student)
            IN  IF FeaturesRaise(r.student)
                THEN /\ ret' = Response("update_student", student_id, 500)
                     /\ UNCHANGED students
                ELSE /\ students' = [students EXCEPT ![student_id] =
                            _set_risk_fields(r.student, r.risk, ml_prob, cluster_id)]
                     /\ ret' = Response("update_student", student_id, 200) @@
                               [student_update |-> [stage |-> student_update.stage,
                                                     final_risk |-> student_update.final_risk]]
    /\ UNCHANGED <<logs, arg, predictor, CHAT_STATE>>

\* students.py lines 167-212
analyze_student(student_id, ml_prob, cluster_id) ==
    /\ IF student_id \notin DOMAIN students
       THEN /\ ret' = Response("analyze_student", student_id, 404)
            /\ UNCHANGED students
       ELSE LET r == calculate_baseline_risk(students[student_id])
                cluster_info == get_cluster_info(cluster_id)
                student == _set_risk_fields(r.student, r.risk, ml_prob, cluster_id)
            IN  IF FeaturesRaise(r.student)
                THEN /\ ret' = Response("analyze_student", student_id, 500)
                     /\ UNCHANGED students
                ELSE /\ students' = [students EXCEPT ![student_id] = student]
                     /\ ret' = Response("analyze_student", student_id, 200) @@
                          [baseline_risk       |-> r.risk,
                           final_risk          |-> student.final_risk,
                           dropout_probability |-> ml_prob,
                           risk_factors        |-> r.risk_factors,
                           recommendations     |-> generate_recommendations(student, r.risk_factors, cluster_info),
                           cluster_id          |-> cluster_id,
                           cluster_name        |-> cluster_info.name,
                           stage               |-> student.stage]
    /\ UNCHANGED <<logs, arg, predictor, CHAT_STATE>>

Min(a, b) == IF a < b THEN a ELSE b

\* bot.py lines 89-112.  The session does not autoflush (database.py lines
\* 38-42), so the query sees the stored logs and not the entry just added.
_recompute_engagement_from_logs(student, stored) ==
    LET recent == SelectSeq(stored, LAMBDA l : l.student_id = student.student_id
                                               /\ l.age <= 7)
    IN  IF recent = << >> THEN student
        ELSE [student EXCEPT !.bot_engagement_score = Min(100, Len(recent) * 5)]

\* bot.py lines 208-264; a predict that raises leaves the log entry uncommitted
log_bot_activity(student_id, probability, cluster_id) ==
    IF student_id \notin DOMAIN students
    THEN /\ ret' = Response("log_bot_activity", student_id, 404)
         /\ UNCHANGED <<students, logs, arg, predictor, CHAT_STATE>>
    ELSE LET log_entry == [student_id |-> student_id, age |-> 0]
             s1 == _recompute_engagement_from_logs(students[student_id], logs)
             s2 == [s1 EXCEPT !.cluster_id = cluster_id]
         IN  IF FeaturesRaise(s1)
             THEN /\ ret' = Response("log_bot_activity", student_id, 500)
                  /\ UNCHANGED <<students, logs, arg, predictor, CHAT_STATE>>
             ELSE /\ Len(logs) < MaxLogs
                  /\ students' = [students EXCEPT ![student_id] =
                                     _compute_final_risk_and_stage(s2, probability)]
                  /\ logs' = Append(logs, log_entry)
                  /\ ret' = Response("log_bot_activity", student_id, 200)
                  /\ UNCHANGED <<arg, predictor, CHAT_STATE>>

\* schemas.py lines 225-236: the fields an AtRiskStudent must be given
AtRiskStudentFields == {"student_id", "name", "department", "risk", "probability", "main_issue", "stage"}

\* Building the schema object raises a ValidationError when a field is missing.
AtRiskStudentRaises(kwargs) == \E field \in AtRiskStudentFields : field \notin DOMAIN kwargs

\* dashboard.py lines 117-125
MainIssue(s) ==
    IF s.backlogs >= 3 THEN "Multiple backlogs"
    ELSE IF s.attendance_percentage < 60 THEN "Very low attendance"
    ELSE IF s.fees_pending THEN "Pending fees"
    ELSE "Low academic performance"

\* dashboard.py lines 107-113: the YELLOW and RED rows by descending
\* dropout_probability, rows of equal probability in any order
RECURSIVE OrderByProbabilityDesc(_)
OrderByProbabilityDesc(ids) ==
    IF ids = {} THEN << >>
    ELSE LET top == CHOOSE id \in ids :
                        \A other \in ids : students[id].dropout_probability >= students[other].dropout_probability
         IN  <<students[top]>> \o OrderByProbabilityDesc(ids \ {top})

AtRiskQuery(limit) ==
    LET rows == OrderByProbabilityDesc({id \in DOMAIN students : students[id].final_risk \in {YELLOW, RED}})
    IN  SubSeq(rows, 1, Min(limit, Len(rows)))

\* dashboard.py lines 99-139: the keyword arguments of lines 128-135 have no
\* stage
at_risk_students(limit) ==
    LET rows   == AtRiskQuery(limit)
        result == [i \in 1..Len(rows) |->
                      [student_id  |-> rows[i].student_id,
                       name        |-> "name",
                       department  |-> "department",
                       risk        |-> rows[i].final_risk,
                       probability |-> rows[i].dropout_probability,
                       main_issue  |-> MainIssue(rows[i])]]
    IN  /\ IF \E i \in 1..Len(result) : AtRiskStudentRaises(result[i])
           THEN ret' = [op |-> "at_risk_students", status |-> 500, limit |-> limit]
           ELSE ret' = [op |-> "at_risk_students", status |-> 200, limit |-> limit, result |-> result]
        /\ UNCHANGED <<students, logs, arg, predictor, CHAT_STATE>>

\* The limits asked for.
Limits == {0, 1, 10}

\* Time passes: every stored log gets d days older (created_at against
\* datetime.utcnow(), bot.py lines 94 and 243).
Tick(d) ==
    /\ \E i \in 1..Len(logs) : logs[i].age < Expired
    /\ logs' = [i \in 1..Len(logs) |->
                  [logs[i] EXCEPT !.age = Min(Expired, @ + d)]]
    /\ UNCHANGED <<students, arg, ret, predictor, CHAT_STATE>>

Next ==
    \/ \E student_in \in StudentCreate : create_student(student_in)
    \/ \E row \in CsvRows : import_base_students_csv(row)
    \/ \E id \in StudentIds, u \in StudentUpdate, p \in ProbabilitiesSeen, c \in ClustersSeen :
          update_student(id, u, p, c)
    \/ \E id \in StudentIds, p \in ProbabilitiesSeen, c \in ClustersSeen :
          analyze_student(id, p, c)
    \/ \E id \in StudentIds, p \in ProbabilitiesSeen, c \in ClustersSeen :
          log_bot_activity(id, p, c)
    \/ \E limit \in Limits : at_risk_students(limit)
    \/ \E d \in TickDays : Tick(d)

Spec == Init /\ [][Next]_vars

(***************************************************************************)
(* Specification SpecAnalyze: analyze_student on a stored row with low     *)
(* attendance, CGPA, quiz and engagement, six backlogs and a large fee     *)
(* due, for every answer of predict.                                       *)
(***************************************************************************)

EndToEndSnapshot == Student("S001", 45, 35, 6, TRUE, 150000, 20, 10, 0, 3)

\* The row as an earlier analysis or bot activity may have left it.
InitAnalyze ==
    /\ logs = << >>
    /\ CHAT_STATE = << >>
    /\ predictor = DropoutPredictor_init(OpenFit)
    /\ arg = NoArg
    /\ ret = NotCalled
    /\ \E stored \in {<<GREEN, 1>>, <<YELLOW, 2>>, <<RED, 3>>} :
          students = [id \in {"S001"} |->
                         [EndToEndSnapshot EXCEPT !.final_risk = stored[1], !.stage = stored[2]]]

NextAnalyze ==
    \E ml_prob \in Probabilities, cluster_id \in Clusters :
        analyze_student("S001", ml_prob, cluster_id)

SpecAnalyze == InitAnalyze /\ [][NextAnalyze]_vars

\* The risk the rules give the stored attributes of a student.
CurrentBaseline(id) == calculate_baseline_risk(students[id]).risk

Recomputed ==
    /\ ret.op \in {"analyze_student", "update_student", "log_bot_activity"}
    /\ ret.status = 200

\* C2: on every path that recomputes a student's risk (analyze_student,
\* update_student, log_bot_activity), when the rule-based baseline for the
\* student's current attributes is RED the final_risk written is RED and the
\* stage is 3, whatever the probability.
C2_BaselineRedForcesRed ==
    (Recomputed /\ CurrentBaseline(ret.student_id) = RED) =>
        /\ students[ret.student_id].final_risk = RED
        /\ students[ret.student_id].stage = 3

\* C3: in every reachable state of a stored student record, stage = 1 exactly
\* when final_risk is GREEN, 2 exactly when it is YELLOW, 3 exactly when it is
\* RED.
C3_StageMatchesFinalRisk ==
    \A id \in DOMAIN students :
        /\ (students[id].stage = 1) = (students[id].final_risk = GREEN)
        /\ (students[id].stage = 2) = (students[id].final_risk = YELLOW)
        /\ (students[id].stage = 3) = (students[id].final_risk = RED)

(***************************************************************************)
(* Properties of the fusion helpers (specification SpecFusion)             *)
(***************************************************************************)
StageOf(risk) == IF risk = RED THEN 3 ELSE IF risk = YELLOW THEN 2 ELSE 1

FusionPolicy(baseline, p) ==
    IF p >= 70 \/ baseline = RED THEN RED
    ELSE IF p >= 40 \/ baseline = YELLOW THEN YELLOW
    ELSE GREEN

\* C1: for every baseline risk and every probability in [0,1],
\* _set_risk_fields sets final_risk RED when probability >= 0.7 or the
\* baseline is RED, else YELLOW when probability >= 0.4 or the baseline is
\* YELLOW, else GREEN, and stage 3, 2, 1 respectively; 0.75 with GREEN gives
\* RED/3 and 0.0 with GREEN gives GREEN/1.
C1_FusionPolicy ==
    "direct" \in ret.called =>
        /\ ret.direct.final_risk = FusionPolicy(arg.baseline_risk, arg.ml_prob)
        /\ ret.direct.stage = StageOf(ret.direct.final_risk)
        /\ (arg.ml_prob = 75 /\ arg.baseline_risk = GREEN)
              => (ret.direct.final_risk = RED /\ ret.direct.stage = 3)
        /\ (arg.ml_prob = 0 /\ arg.baseline_risk = GREEN)
              => (ret.direct.final_risk = GREEN /\ ret.direct.stage = 1)

C1_Witness ==
    /\ "direct" \in ret.called
    /\ arg.ml_prob = 70
    /\ arg.baseline_risk = GREEN
    /\ ret.direct.final_risk = RED
    /\ ret.direct.stage = 3

\* C4: with a GREEN baseline, _set_risk_fields and
\* _compute_final_risk_and_stage produce the same final_risk and the same
\* stage for every probability in [0,1].
C4_SameThresholds ==
    (ret.called = {"direct", "bot"} /\ arg.baseline_risk = GREEN) =>
        /\ ret.direct.final_risk = ret.bot.final_risk
        /\ ret.direct.stage = ret.bot.stage

(***************************************************************************)
(* Properties of calculate_baseline_risk (specification SpecRules)         *)
(***************************************************************************)
RulesReturned == ret.op = "calculate_baseline_risk"

\* The value a band sees for a snapshot field: the field, or its neutral
\* default when the field is missing.
Seen(v, default) == IF v = None THEN default ELSE v

AttendanceBand(a) ==
    IF a < 50 THEN 4 ELSE IF a < 65 THEN 3 ELSE IF a < 75 THEN 2
    ELSE IF a < 85 THEN 1 ELSE 0
CgpaBand(c) ==
    IF c < 40 THEN 4 ELSE IF c < 50 THEN 3 ELSE IF c < 60 THEN 2
    ELSE IF c < 70 THEN 1 ELSE 0
BacklogBand(b) ==
    IF b >= 5 THEN 4 ELSE IF b >= 3 THEN 3 ELSE IF b >= 1 THEN 2 ELSE 0
FeeBand(pending, amount) ==
    IF ~pending THEN 0
    ELSE IF amount > 100000 THEN 4
    ELSE IF amount > 50000 /\ amount <= 100000 THEN 3
    ELSE IF amount > 20000 /\ amount <= 50000 THEN 2
    ELSE 1
EngagementBand(e) == IF e < 20 THEN 2 ELSE IF e < 40 THEN 1 ELSE 0
QuizBand(q) == IF q < 30 THEN 1 ELSE 0

BandSum(s) ==
    AttendanceBand(Seen(s.attendance_percentage, 0))
    + CgpaBand(Seen(s.cgpa, 0))
    + BacklogBand(Seen(s.backlogs, 0))
    + FeeBand(s.fees_pending, Seen(s.fees_amount_due, 0))
    + EngagementBand(Seen(s.bot_engagement_score, 50))
    + QuizBand(Seen(s.quiz_score_avg, 50))

\* C5: calculate_baseline_risk returns RED when the accumulated risk_score
\* (the sum of the points of the six signals) is >= 8, YELLOW when it is >= 4
\* and < 8, GREEN when it is < 4.
C5_ScoreToRisk ==
    RulesReturned =>
        /\ ret.risk_score = BandSum(arg)
        /\ (ret.risk = RED) = (BandSum(arg) >= 8)
        /\ (ret.risk = YELLOW) = (BandSum(arg) >= 4 /\ BandSum(arg) < 8)
        /\ (ret.risk = GREEN) = (BandSum(arg) < 4)

C5_Witness ==
    /\ RulesReturned
    /\ ret.risk_score = 8
    /\ ret.risk = RED

\* C6: the points for attendance are 4 below 50, 3 in [50,65), 2 in [65,75),
\* 1 in [75,85), else 0; for CGPA 4 below 4.0, 3 in [4.0,5.0), 2 in
\* [5.0,6.0), 1 in [6.0,7.0), else 0; for backlogs 4 from 5 up, 3 in [3,5),
\* 2 in [1,3), else 0; every boundary value belongs to the lower-scoring band.
C6_AcademicBands ==
    RulesReturned =>
        /\ ret.signal_points[1] = AttendanceBand(Seen(arg.attendance_percentage, 0))
        /\ ret.signal_points[2] = CgpaBand(Seen(arg.cgpa, 0))
        /\ ret.signal_points[3] = BacklogBand(Seen(arg.backlogs, 0))
        /\ arg.attendance_percentage = 50 => ret.signal_points[1] = 3
        /\ arg.attendance_percentage = 65 => ret.signal_points[1] = 2
        /\ arg.attendance_percentage = 75 => ret.signal_points[1] = 1
        /\ arg.attendance_percentage = 85 => ret.signal_points[1] = 0
        /\ arg.cgpa = 40 => ret.signal_points[2] = 3
        /\ arg.cgpa = 50 => ret.signal_points[2] = 2
        /\ arg.cgpa = 60 => ret.signal_points[2] = 1
        /\ arg.cgpa = 70 => ret.signal_points[2] = 0

C6_Witness ==
    /\ RulesReturned
    /\ arg.attendance_percentage = 50
    /\ arg.cgpa = 70
    /\ arg.backlogs = 3
    /\ ret.signal_points[1] = 3
    /\ ret.signal_points[2] = 0
    /\ ret.signal_points[3] = 3

\* C7: the fee signal contributes 0 points and no factor when fees_pending is
\* false whatever the amount; when fees_pending is true it contributes 4 above
\* 100000, 3 in (50000,100000], 2 in (20000,50000], else 1 (amount 0
\* included); engagement contributes 2 below 20, 1 in [20,40), else 0; the
\* quiz average contributes 1 below 30, else 0.
C7_FeeEngagementQuizBands ==
    RulesReturned =>
        /\ ret.signal_points[4] = FeeBand(arg.fees_pending, Seen(arg.fees_amount_due, 0))
        /\ ret.signal_points[5] = EngagementBand(Seen(arg.bot_engagement_score, 50))
        /\ ret.signal_points[6] = QuizBand(Seen(arg.quiz_score_avg, 50))
        /\ ~arg.fees_pending =>
              /\ ret.signal_points[4] = 0
              /\ \A k \in 1..Len(ret.risk_factors) : ret.risk_factors[k].signal # "fees"
        /\ (arg.fees_pending /\ arg.fees_amount_due = 0) => ret.signal_points[4] = 1

C7_Witness ==
    /\ RulesReturned
    /\ arg.fees_pending
    /\ arg.fees_amount_due = 100000
    /\ ret.signal_points[4] = 3
    /\ arg.bot_engagement_score = 20
    /\ ret.signal_points[5] = 1
    /\ arg.quiz_score_avg = 29
    /\ ret.signal_points[6] = 1

\* The snapshots C8 is about (the four values are present).
Below(v, limit) == v # None /\ v < limit
C8_Case ==
    /\ Below(arg.attendance_percentage, 50)
    /\ Below(arg.cgpa, 40)
    /\ arg.backlogs >= 5
    /\ arg.fees_pending
    /\ arg.fees_amount_due > 100000

\* C8 (as stated): for all snapshots with attendance < 50, cgpa < 4.0,
\* backlogs >= 5 and fees pending with more than 100000 due, and for every
\* engagement score and quiz average, calculate_baseline_risk returns RED
\* with risk_score >= 8 and exactly 4 risk factors.
C8_ExactlyFourFactors ==
    (RulesReturned /\ C8_Case) =>
        /\ ret.risk = RED
        /\ ret.risk_score >= 8
        /\ Len(ret.risk_factors) = 4

\* C8 (amended): for those snapshots calculate_baseline_risk returns RED with
\* risk_score >= 8, and the factors are the four of attendance, CGPA,
\* backlogs and fees, followed by one more for an engagement score below 40
\* and one more for a quiz average below 30: exactly 4 factors only when
\* engagement >= 40 and quiz average >= 30.
C8_FourPlusTriggeredFactors ==
    (RulesReturned /\ C8_Case) =>
        /\ ret.risk = RED
        /\ ret.risk_score >= 8
        /\ Len(ret.risk_factors) =
              4 + (IF Seen(arg.bot_engagement_score, 50) < 40 THEN 1 ELSE 0)
                + (IF Seen(arg.quiz_score_avg, 50) < 30 THEN 1 ELSE 0)
        /\ ret.risk_factors[1].signal = "attendance"
        /\ ret.risk_factors[2].signal = "cgpa"
        /\ ret.risk_factors[3].signal = "backlogs"
        /\ ret.risk_factors[4].signal = "fees"

C8_Witness ==
    /\ RulesReturned
    /\ C8_Case
    /\ arg.bot_engagement_score = 40
    /\ arg.quiz_score_avg = 30
    /\ Len(ret.risk_factors) = 4

SignalOrder == <<"attendance", "cgpa", "backlogs", "fees", "engagement", "quiz">>
SignalRank(signal) == CHOOSE i \in 1..6 : SignalOrder[i] = signal

\* The factors appended by the six signals: the returned list without the
\* confirmation factor.
SignalFactors == SelectSeq(ret.risk_factors, LAMBDA f : f # ConfirmationFactor)

\* C9: each of the six signals appends at most one factor, and appends one
\* exactly when it adds a non-zero number of points: the number of factors
\* (before any confirmation factor) equals the number of signals with
\* non-zero points, is at most 6, and the factors are in the order
\* attendance, CGPA, backlogs, fees, engagement, quiz.
C9_OneFactorPerScoringSignal ==
    RulesReturned =>
        /\ Len(SignalFactors) = Cardinality({i \in 1..6 : ret.signal_points[i] # 0})
        /\ Len(SignalFactors) <= 6
        /\ \A k \in 1..Len(SignalFactors) : SignalFactors[k].signal \in
              {SignalOrder[i] : i \in 1..6}
        /\ \A i \in 1..6 :
              (ret.signal_points[i] # 0) =
              (\E k \in 1..Len(SignalFactors) : SignalFactors[k].signal = SignalOrder[i])
        /\ \A j, k \in 1..Len(SignalFactors) :
              j < k => SignalRank(SignalFactors[j].signal) < SignalRank(SignalFactors[k].signal)

C9_Witness ==
    /\ RulesReturned
    /\ Len(SignalFactors) = 6
    /\ ret.signal_points[6] = 1

HasConfirmation == \E k \in 1..Len(ret.risk_factors) : ret.risk_factors[k] = ConfirmationFactor

\* C10: the confirmation factor is appended exactly when the result is GREEN
\* and no signal appended a factor (risk_score = 0); the returned list is
\* never empty, and a GREEN result with score 1..3 or any YELLOW/RED result
\* never contains the confirmation factor.
C10_ConfirmationFactor ==
    RulesReturned =>
        /\ HasConfirmation = (ret.risk = GREEN /\ ret.risk_score = 0)
        /\ HasConfirmation => ret.risk_factors = <<ConfirmationFactor>>
        /\ ret.risk_factors # << >>
        /\ (ret.risk = GREEN /\ ret.risk_score \in 1..3) => ~HasConfirmation
        /\ ret.risk \in {YELLOW, RED} => ~HasConfirmation

C10_Witness ==
    /\ RulesReturned
    /\ ret.risk = GREEN
    /\ ret.risk_score = 0
    /\ ret.risk_factors = <<ConfirmationFactor>>


(***************************************************************************)
(* Missing values on the scoring paths                                     *)
(***************************************************************************)

\* C11: every scoring path run by analyze_student, update_student and
\* log_bot_activity replaces a missing (None) numeric field by its neutral
\* default and completes without raising: none of these handlers ends in a
\* server error.
C11_ScoringNeverRaises ==
    ret.op \in {"analyze_student", "update_student", "log_bot_activity"} => ret.status # 500


\* C12: calculate_baseline_risk has no side effect: every attribute of the
\* student object passed in has the same value after the call as before it,
\* also when the snapshot has missing (None) fields.
C12_BaselineLeavesStudentUnchanged ==
    RulesReturned => ret.student = arg

\* C13: calculate_baseline_risk is deterministic: two consecutive calls on
\* the same snapshot, missing fields included, return the same risk level and
\* the same ordered factor list.
C13_BaselineDeterministic ==
    ret.op = "calculate_baseline_risk again" =>
        /\ ret.again.risk = ret.risk
        /\ ret.again.risk_factors = ret.risk_factors

\* Both calls are done on a snapshot with a missing field, and factors were
\* listed.
C13_Witness ==
    /\ ret.op = "calculate_baseline_risk again"
    /\ arg.bot_engagement_score = None
    /\ Len(ret.risk_factors) >= 2

(***************************************************************************)
(* The predictor                                                           *)
(***************************************************************************)

InBootstrap(c) == ret[c].pc \in {"fit_scaler", "fit_clusters", "fit_classifier"}

PredictDone(c) == ret[c].op = "predict" /\ ret[c].pc = "done"

\* C14: after the bootstrap the fitted state is read-only: is_initialized is
\* true in every state after construction, no call or interleaving of
\* predict, get_cluster_info and get_feature_importance changes the fitted
\* scaler, cluster model or classifier or runs the bootstrap again, no call
\* raises, and predict on the same snapshot returns the same (probability,
\* cluster_id) to every caller.
C14_FittedStateReadOnly ==
    /\ predictor.is_initialized
    /\ predictor.scaler = [fitted |-> TRUE]
    /\ predictor.cluster_model = [fitted |-> TRUE, labels |-> arg.fit.labels]
    /\ predictor.prediction_model = [fitted |-> TRUE, coef |-> arg.fit.coef, proba |-> arg.fit.proba]
    /\ \A c \in Callers : ~InBootstrap(c) /\ ret[c].pc # "raised"
    /\ \A c1, c2 \in Callers :
          PredictDone(c1) /\ PredictDone(c2) /\ ret[c1].student = ret[c2].student =>
              /\ ret[c1].probability = ret[c2].probability
              /\ ret[c1].cluster = ret[c2].cluster

\* Two callers have finished predict on the same snapshot.
C14_Witness ==
    /\ PredictDone(1) /\ PredictDone(2)
    /\ ret[1].student = ret[2].student
    /\ ret[1].student.attendance_percentage = 0

\* C16: get_cluster_info never fails: the ids 0, 1, 2 and 3 give their own
\* profile, every other id (negative, 4 or more, None) gives exactly the
\* profile of cluster 3, and every profile returned has the keys name,
\* description, typical_issues and intervention.
C16_ClusterInfoTotal ==
    \A c \in Callers :
        ret[c].op = "get_cluster_info" =>
            /\ ret[c].pc = "done"
            /\ DOMAIN ret[c].result = {"name", "description", "typical_issues", "intervention"}
            /\ ret[c].result.name =
                  CASE ret[c].cluster_id = 0 -> "High Performers"
                    [] ret[c].cluster_id = 1 -> "Academic Strugglers"
                    [] ret[c].cluster_id = 2 -> "Financially Stressed"
                    [] OTHER -> "Disengaged Students"
            /\ ret[c].cluster_id \notin 0..3 => ret[c].result = cluster_profiles[3]
            /\ ret[c].cluster_id \in 0..3 => ret[c].result = cluster_profiles[ret[c].cluster_id]

\* One caller asked for a negative id and another for the missing id.
C16_Witness ==
    /\ ret[1].op = "get_cluster_info" /\ ret[1].cluster_id = 0 - 5
    /\ ret[2].op = "get_cluster_info" /\ ret[2].cluster_id = None

ImportanceReturned == ret.op = "get_feature_importance"

\* C17: get_feature_importance returns exactly 9 entries, one per feature;
\* the importance of an entry is the absolute value of the feature's
\* coefficient, the entries are in non-increasing order of importance, and
\* the direction is "increases_risk" when the coefficient is strictly
\* positive and "decreases_risk" otherwise, a coefficient of 0 included.
C17_FeatureImportance ==
    ImportanceReturned =>
        LET result == ret.result
            coef   == arg.fit.coef
        IN  /\ Len(result) = 9
            /\ \A j \in 1..9 :
                  \E i \in 1..9 :
                      /\ result[i].feature = feature_names[j]
                      /\ result[i].importance >= 0
                      /\ result[i].importance \in {coef[j], 0 - coef[j]}
                      /\ result[i].direction = "increases_risk" <=> coef[j] > 0
                      /\ result[i].direction = "decreases_risk" <=> coef[j] <= 0
            /\ \A i \in 1..8 : result[i].importance >= result[i + 1].importance

\* The list was returned for coefficients of all three signs, the largest in
\* absolute value negative and behind a smaller positive one.
C17_Witness ==
    /\ ImportanceReturned
    /\ arg.fit.coef[1] = 1 /\ arg.fit.coef[2] = 0 /\ arg.fit.coef[3] = 0 - 2
    /\ ret.result[1].importance = 2
    /\ ret.result[9].importance = 0

(***************************************************************************)
(* Recommendations                                                         *)
(***************************************************************************)

RecsReturned == ret.op = "generate_recommendations"

PriorityTags(recs) == {i \in 1..Len(recs) : recs[i].block = "priority"}

\* C18: generate_recommendations puts the HIGH priority tag first when the
\* final risk is RED and the MEDIUM priority tag first when it is YELLOW, puts
\* no priority tag when it is GREEN, and never puts more than one tag.
C18_PriorityTag ==
    RecsReturned =>
        LET recs == ret.recommendations
            final_risk == arg.student.final_risk
        IN  /\ final_risk = RED => recs[1] = HighPriority
            /\ final_risk = YELLOW => recs[1] = MediumPriority
            /\ final_risk = GREEN => PriorityTags(recs) = {}
            /\ Cardinality(PriorityTags(recs)) <= 1
            /\ PriorityTags(recs) \subseteq {1}

\* The list was returned for a RED student whose other blocks begin with the
\* attendance block.
C18_Witness ==
    /\ RecsReturned
    /\ arg.student.final_risk = RED
    /\ arg.student.attendance_percentage < 50
    /\ ret.recommendations[1] = HighPriority
    /\ ret.recommendations[2].block = "attendance"

BlockOrder == <<"priority", "attendance", "cgpa", "backlogs", "fees", "engagement", "quiz", "counselling", "cluster">>

BlockRank(block) == CHOOSE i \in 1..Len(BlockOrder) : BlockOrder[i] = block

\* C19: the recommendations come in a fixed block order: priority tag,
\* attendance, CGPA, backlog, fee, engagement, quiz, counselling line, and the
\* two-line cluster summary last; with attendance below 50 the URGENT
\* attendance block is the first entry behind the priority tag; the list is
\* never empty.
C19_BlockOrder ==
    RecsReturned =>
        LET recs  == ret.recommendations
            n     == Len(recs)
            first == IF arg.student.final_risk = GREEN THEN 1 ELSE 2
        IN  /\ n >= 2
            /\ \A i \in 1..n : recs[i].block \in {BlockOrder[k] : k \in 1..Len(BlockOrder)}
            /\ \A i, j \in 1..n : i < j => BlockRank(recs[i].block) <= BlockRank(recs[j].block)
            /\ \A i \in 1..(n - 1) :
                  recs[i].block = recs[i + 1].block =>
                      /\ recs[i + 1].line = recs[i].line + 1
                      /\ recs[i + 1].label = recs[i].label \/ recs[i].block = "cluster"
            /\ recs[n - 1] = Rec("cluster", "Student Profile", 1, None, arg.cluster_info.name)
            /\ recs[n] = Rec("cluster", "Recommended Focus", 2, None, arg.cluster_info.intervention)
            /\ arg.student.attendance_percentage < 50 =>
                  \A k \in 1..5 : recs[first + k - 1] = Rec("attendance", "URGENT", k, None, "")

\* The list was returned with every block in it.
C19_Witness ==
    /\ RecsReturned
    /\ arg.student.attendance_percentage < 50
    /\ {ret.recommendations[i].block : i \in 1..Len(ret.recommendations)} = {BlockOrder[k] : k \in 1..Len(BlockOrder)}

(***************************************************************************)
(* End to end                                                              *)
(***************************************************************************)

\* C20: for the snapshot attendance 45, CGPA 3.5, 6 backlogs, fees pending
\* with 150000 due, quiz 20, engagement 10, no counselling, semester 3, and
\* for every probability and cluster predict may answer, analyze_student
\* gives baseline RED with a score of at least 8, final risk RED and stage 3,
\* and recommendations that start with the priority tag followed by the
\* urgent-attendance, critical-CGPA, high-backlog and major-fee blocks in
\* that order.
C20_EndToEnd ==
    ret.op = "analyze_student" =>
        LET recs == ret.recommendations IN
        /\ ret.status = 200
        /\ ret.baseline_risk = RED
        /\ calculate_baseline_risk(students["S001"]).risk_score >= 8
        /\ ret.final_risk = RED /\ ret.stage = 3
        /\ students["S001"].final_risk = RED /\ students["S001"].stage = 3
        /\ recs[1] = HighPriority
        /\ SubSeq(recs, 2, 19) =
              RecLines("attendance", "URGENT", 5)
              \o RecLines("cgpa", "Intensive remedial program", 4)
              \o RecLines("backlogs", "Backlog clearance plan", 4)
              \o RecLines("fees", "Urgent meeting with accounts", 5)

\* The analysis ran with predict answering probability 0 and the cluster of
\* the high performers, on a row stored as GREEN.
C20_Witness ==
    /\ ret.op = "analyze_student"
    /\ ret.dropout_probability = 0
    /\ ret.cluster_name = "High Performers"
    /\ ret.final_risk = RED
    /\ Len(ret.risk_factors) >= 4

(***************************************************************************)
(* Counselor assignment                                                    *)
(***************************************************************************)

AreaReturned == ret.op = "classify_student_area"

\* The area by the priority list, on the values as they are stored: a
\* missing value triggers nothing, a value of 0 is a value.
AreaByPriority(student) ==
    IF student.cluster_id = 1 THEN "academic"
    ELSE IF student.cluster_id = 2 THEN "financial"
    ELSE IF student.cluster_id = 3 THEN "attendance"
    ELSE IF student.fees_pending \/ (student.fees_amount_due # None /\ student.fees_amount_due > 0) THEN "financial"
    ELSE IF (student.backlogs # None /\ student.backlogs >= 2) \/ Below(student.cgpa, 60) THEN "academic"
    ELSE IF Below(student.attendance_percentage, 75) \/ Below(student.bot_engagement_score, 40) THEN "attendance"
    ELSE "general"

\* C21: classify_student_area answers by priority: academic, financial,
\* attendance for cluster 1, 2, 3; otherwise financial when fees are
\* outstanding; otherwise academic when backlogs >= 2 or cgpa < 6.0;
\* otherwise attendance when attendance < 75 or engagement < 40; otherwise
\* general; also for students whose cgpa, attendance or engagement is
\* exactly 0.
C21_AreaByPriority ==
    AreaReturned => ret.area = AreaByPriority(arg)

AssignReturned == ret.op = "build_specialized_assignment"

\* The specialization trimmed and lower-cased, empty or missing read as
\* "general".
KeyText(c) == IF c.specialization.text = "" THEN "general" ELSE c.specialization.text

MatchingCounselors(counselors, s) ==
    SelectSeq(counselors, LAMBDA c : KeyText(c) = classify_student_area(s))

ExpectedPool(counselors, s) ==
    IF MatchingCounselors(counselors, s) = << >> THEN counselors ELSE MatchingCounselors(counselors, s)

Holds(mapping, id, s) == \E j \in 1..Len(mapping[id]) : mapping[id][j] = s

\* C22: for a non-empty roster, build_specialized_assignment places each
\* student with the counselor at index (student.id mod pool size) of the
\* pool; the pool is the list, in roster order, of the counselors whose
\* specialization (trimmed, lower-cased, empty or missing read as "general")
\* equals the student's area, and the full roster when there is none.
C22_IndexInPool ==
    AssignReturned /\ ret.counselors # << >> =>
        \A k \in 1..Len(students) :
            LET s    == students[k]
                pool == ExpectedPool(ret.counselors, s)
            IN  Holds(ret.mapping, pool[(s.id % Len(pool)) + 1].id, s)

\* Two counselors share the academic pool, one of them written " Academic ",
\* and a student of odd primary key is with the second of them.
C22_Witness ==
    /\ AssignReturned
    /\ Len(ret.counselors) = 2
    /\ ret.counselors[1].specialization # ret.counselors[2].specialization
    /\ KeyText(ret.counselors[1]) = "academic" /\ KeyText(ret.counselors[2]) = "academic"
    /\ \E k \in 1..Len(students) :
          /\ students[k].id % 2 = 1
          /\ classify_student_area(students[k]) = "academic"
          /\ Holds(ret.mapping, ret.counselors[2].id, students[k])

Places(mapping) == UNION {{<<id, j>> : j \in 1..Len(mapping[id])} : id \in DOMAIN mapping}

\* C23: for a non-empty roster of counselors with distinct ids,
\* build_specialized_assignment partitions the students: each student is in
\* exactly one counselor's list, every counselor id of the roster is a key of
\* the mapping, and the list lengths sum to the number of students.
C23_Partition ==
    AssignReturned /\ ret.counselors # << >> =>
        /\ DOMAIN ret.mapping = {ret.counselors[i].id : i \in 1..Len(ret.counselors)}
        /\ \A k \in 1..Len(students) :
              Cardinality({p \in Places(ret.mapping) : ret.mapping[p[1]][p[2]] = students[k]}) = 1
        /\ Cardinality(Places(ret.mapping)) = Len(students)

\* Two students are split over two counselors.
C23_Witness ==
    /\ AssignReturned
    /\ Len(ret.counselors) = 2 /\ Len(students) = 2
    /\ \A id \in DOMAIN ret.mapping : Len(ret.mapping[id]) = 1

AcademicCounselors == {i \in 1..Len(ret.counselors) : KeyText(ret.counselors[i]) = "academic"}

Analyzed == ret.op = "analyze_student" /\ ret.status = 200

\* C26: every analysis recomputes the assessment from the student's current
\* attributes and persists it: after analyze_student returns, the stored
\* baseline_risk, dropout_probability, cluster_id, final_risk and stage equal
\* the values of the returned RiskAnalysis, and they are those of the current
\* attributes and of predict's answer, whatever risk values were stored
\* before.
C26_AnalysisPersisted ==
    Analyzed =>
        LET student == students[ret.student_id] IN
        /\ student.baseline_risk = ret.baseline_risk
        /\ student.dropout_probability = ret.dropout_probability
        /\ student.cluster_id = ret.cluster_id
        /\ student.final_risk = ret.final_risk
        /\ student.stage = ret.stage
        /\ ret.baseline_risk = CurrentBaseline(ret.student_id)
        /\ ret.final_risk = FusionPolicy(ret.baseline_risk, ret.dropout_probability)
        /\ ret.stage = StageOf(ret.final_risk)

\* An analysis answered GREEN for a student with logged bot activity.
C26_Witness ==
    /\ Analyzed
    /\ Len(logs) >= 1
    /\ ret.final_risk = GREEN
    /\ students[ret.student_id].stage = 1

Updated == ret.op = "update_student" /\ ret.status = 200

\* C27: a counselor can override the risk by hand through update_student:
\* when the payload supplies stage and/or final_risk, the student record
\* stored after the update has exactly the supplied stage and final_risk.
C27_ManualOverride ==
    Updated =>
        /\ ret.student_update.stage # Unset =>
              students[ret.student_id].stage = ret.student_update.stage
        /\ ret.student_update.final_risk # "unset" =>
              students[ret.student_id].final_risk = ret.student_update.final_risk

RecentLogs(student_id) == {i \in 1..Len(logs) : logs[i].student_id = student_id /\ logs[i].age <= 7}

\* C28: after log_bot_activity stores an answer for a student, the student's
\* bot_engagement_score is min(100, 5 * n), n being the number of the
\* student's activity logs of the last 7 days with the answer just stored
\* counted in; the score is within [0,100] after any sequence of logged
\* activities.
C28_EngagementCountsStoredAnswer ==
    /\ ret.op = "log_bot_activity" /\ ret.status = 200 =>
          students[ret.student_id].bot_engagement_score =
              Min(100, 5 * Cardinality(RecentLogs(ret.student_id)))
    /\ \A id \in DOMAIN students :
          students[id].bot_engagement_score \in 0..100

(***************************************************************************)
(* Dashboard                                                               *)
(***************************************************************************)

\* C29: at_risk_students answers, for every limit N and every set of stored
\* students, with a successful response that lists at most N students, all
\* of final risk YELLOW or RED, in non-increasing order of
\* dropout_probability; it does not fail when a YELLOW or RED student exists.
C29_AtRiskListed ==
    ret.op = "at_risk_students" =>
        /\ ret.status = 200
        /\ Len(ret.result) <= ret.limit
        /\ \A i \in 1..Len(ret.result) : ret.result[i].risk \in {YELLOW, RED}
        /\ \A i \in 1..(Len(ret.result) - 1) : ret.result[i].probability >= ret.result[i + 1].probability

(***************************************************************************)
(* The check-in conversation                                               *)
(***************************************************************************)

IndexInRange ==
    \A chat_id \in DOMAIN CHAT_STATE :
        /\ CHAT_STATE[chat_id].current_index >= 0
        /\ CHAT_STATE[chat_id].current_index <= Len(CHAT_STATE[chat_id].pending_questions)

\* The step handles a text message whose answer the backend accepted / failed
\* to log.
AnswerAccepted == ret'.op = "handle_text_message" /\ ret'.outcome = "accepted"

AnswerFailed == ret'.op = "handle_text_message" /\ ret'.outcome = "failed"

\* A failed answer leaves student_id, pending_questions and current_index of
\* every chat as they were, and the question it was for is the current one.
FailureKeepsState ==
    AnswerFailed =>
        /\ CHAT_STATE' = CHAT_STATE
        /\ ret'.answered = CHAT_STATE'[ret'.chat_id].current_index + 1

\* C30 as stated: for every chat and every sequence of /register, /daily and
\* text messages, current_index stays between 0 and the number of pending
\* questions, it advances by exactly one per answer the backend accepted, and
\* a failed answer leaves the chat state unchanged, so that the same question
\* is answered by the next text message.
C30_AdvancesByOnePerAnswer ==
    /\ []IndexInRange
    /\ [][AnswerAccepted =>
             CHAT_STATE'[ret'.chat_id].current_index = CHAT_STATE[ret'.chat_id].current_index + 1]_vars
    /\ [][FailureKeepsState]_vars

\* C30 amended: current_index stays between 0 and the number of pending
\* questions; an accepted answer to a question that is not the last advances
\* it by exactly one and keeps the pending questions, an accepted answer to
\* the last question ends the check-in with no pending questions and
\* current_index 0; a failed answer leaves the chat state unchanged, so that
\* the same question is answered by the next text message.
C30_AdvancesUntilLastAnswer ==
    /\ []IndexInRange
    /\ [][AnswerAccepted =>
             LET before == CHAT_STATE[ret'.chat_id]
                 after  == CHAT_STATE'[ret'.chat_id]
             IN  /\ ret'.answered = before.current_index + 1
                 /\ after.student_id = before.student_id
                 /\ IF before.current_index + 1 < Len(before.pending_questions)
                    THEN /\ after.current_index = before.current_index + 1
                         /\ after.pending_questions = before.pending_questions
                    ELSE /\ after.current_index = 0
                         /\ after.pending_questions = << >>]_vars
    /\ [][FailureKeepsState]_vars

\* The answer to the last of two questions was accepted and the check-in of
\* that chat is over.
C30_Witness ==
    /\ ret.op = "handle_text_message"
    /\ ret.outcome = "accepted"
    /\ ret.answered = 2
    /\ CHAT_STATE[ret.chat_id].pending_questions = << >>
    /\ CHAT_STATE[ret.chat_id].current_index = 0

=============================================================================
